---- MODULE Spec2Model ----
(***************************************************************************)
(* A model of the variable-step BDF stepper of diffsol                     *)
(* (src/src/ode_solver/bdf.rs), of the BDF callable it drives              *)
(* (src/src/callable/ode.rs, and the callable of src/src/op/sdirk.rs) and  *)
(* of the Newton solver (src/src/nonlinear_solver/newton.rs).              *)
(*                                                                         *)
(* Reading of the source.  The stepper is modelled for one state component *)
(* (nstates = 1), so that a vector is a scalar and the norm of a vector is *)
(* its absolute value.  Scalars are exact rationals <<num, den>>; +infinity*)
(* is <<1, 0>>.  The fractional powers x^(-1/n) of the step-size control   *)
(* are computed to one decimal digit, rounded down (PowInv, Quantise).     *)
(* A field name denotes one storage location: bdf.rs writes `self.h`,      *)
(* `self.y` and `self.state.h`, `self.state.y` while the struct Bdf        *)
(* declares neither h nor y, so both spellings are the state's h and y;    *)
(* likewise `self.state.order`, `self.state.error_const` are the stepper's *)
(* order and error_const.  An access through an Option that holds None     *)
(* (self.state, self.bdf_callable) is a panic.  The right-hand side f and  *)
(* hence the outcome of each Newton solve are inputs of the environment.   *)
(***************************************************************************)
EXTENDS Integers, Sequences, FiniteSets, TLC

(***************************************************************************)
(* Exact rational arithmetic for the scalar type T.                        *)
(***************************************************************************)
RECURSIVE Gcd(_, _)
Gcd(a, b) == IF b = 0 THEN a ELSE Gcd(b, a % b)

IAbs(n) == IF n < 0 THEN -n ELSE n

Inf == <<1, 0>>

Rat(n, d) ==
    IF d = 0 THEN Inf
    ELSE LET s == IF d < 0 THEN -1 ELSE 1
             g == Gcd(IAbs(n), IAbs(d))
         IN  <<(s * n) \div g, (s * d) \div g>>

Zero == <<0, 1>>

One == <<1, 1>>

IsInf(a) == a[2] = 0

RAdd(a, b) ==
    IF IsInf(a) \/ IsInf(b) THEN Inf
    ELSE LET g == Gcd(a[2], b[2])
             l == (a[2] \div g) * b[2]
         IN  Rat(a[1] * (l \div a[2]) + b[1] * (l \div b[2]), l)

RNeg(a) == <<-a[1], a[2]>>

RSub(a, b) == RAdd(a, RNeg(b))

RMul(a, b) ==
    IF IsInf(a) \/ IsInf(b) THEN Inf
    ELSE LET g1 == Gcd(IAbs(a[1]), b[2])
             g2 == Gcd(IAbs(b[1]), a[2])
         IN  Rat((a[1] \div g1) * (b[1] \div g2), (a[2] \div g2) * (b[2] \div g1))

RAbs(a) == <<IAbs(a[1]), a[2]>>

\* a / b for b > 0.
RDiv(a, b) == IF IsInf(a) THEN Inf ELSE RMul(a, Rat(b[2], b[1]))

RLe(a, b) == a[1] * b[2] <= b[1] * a[2]

RLt(a, b) == ~RLe(b, a)

RMax(a, b) == IF RLe(a, b) THEN b ELSE a

RMin(a, b) == IF RLe(a, b) THEN a ELSE b

RECURSIVE RootSearch(_, _, _, _)
\* The largest g in lo..hi with (g/10)^n * x <= 1, given that lo is one.
RootSearch(x, n, lo, hi) ==
    IF lo = hi THEN lo
    ELSE LET mid == (lo + hi + 1) \div 2
         IN  IF (mid ^ n) * x[1] <= (10 ^ n) * x[2]
             THEN RootSearch(x, n, mid, hi)
             ELSE RootSearch(x, n, lo, mid - 1)

\* x^(-1/n) for x >= 0, to one decimal digit rounded down, at most cap/10;
\* inf^(-1/n) = 0 and 0^(-1/n) = inf as in IEEE arithmetic.
PowInv(x, n, cap) ==
    IF IsInf(x) THEN Zero
    ELSE IF x[1] = 0 THEN Inf
    ELSE Rat(RootSearch(x, n, 0, cap), 10)

\* A computed step-size factor, kept to one decimal digit (rounded down).
Quantise(q) == IF IsInf(q) THEN Inf ELSE Rat((10 * q[1]) \div q[2], 10)

(***************************************************************************)
(* IEEE arithmetic where an infinite operand can occur (alpha is 1 / 0):   *)
(* -infinity is <<-1, 0>> and NaN is <<0, 0>>.                             *)
(***************************************************************************)
NegInf == <<-1, 0>>

NaN == <<0, 0>>

Sign(n) == IF n < 0 THEN -1 ELSE IF n > 0 THEN 1 ELSE 0

XAdd(a, b) ==
    IF a = NaN \/ b = NaN THEN NaN
    ELSE IF IsInf(a) /\ IsInf(b) THEN (IF a = b THEN a ELSE NaN)
    ELSE IF IsInf(a) THEN a
    ELSE IF IsInf(b) THEN b
    ELSE RAdd(a, b)

XMul(a, b) ==
    IF a = NaN \/ b = NaN THEN NaN
    ELSE IF IsInf(a) \/ IsInf(b) THEN <<Sign(a[1]) * Sign(b[1]), 0>>
    ELSE RMul(a, b)

XSub(a, b) == XAdd(a, RNeg(b))

\* 1 / a for a >= 0 (1 / 0 = +infinity).
XInv(a) == Rat(a[2], a[1])

(***************************************************************************)
(* Program constants of Bdf.                                               *)
(***************************************************************************)
MAX_ORDER == 5

NEWTON_MAXITER == 4

MIN_FACTOR == <<1, 5>>

MAX_FACTOR == <<10, 1>>

NEWTON_FAIL_FACTOR == <<3, 10>>

\* max_iter of a new NewtonNonlinearSolver.
DEFAULT_MAX_ITER == 100

\* diff is allocated with MAX_ORDER + 1 rows by set_state.
NRows == MAX_ORDER + 1

\* kappa of set_state (Table 1 of the reference).
Kappa(i) ==
    CASE i = 0 -> Zero
      [] i = 1 -> Rat(-185, 1000)
      [] i = 2 -> Rat(-1, 9)
      [] i = 3 -> Rat(-823, 10000)
      [] i = 4 -> Rat(-415, 10000)
      [] OTHER -> Zero

\* The local `gamma` of set_state: set to 0 and never updated by the loop.
GammaLocal == Zero

\* error_const[i] as set_state pushes it: kappa[i] * gamma + 1 / (i + 1).
ErrorConst(i) ==
    IF i = 0 THEN Zero ELSE RAdd(RMul(Kappa(i), GammaLocal), Rat(1, i + 1))

\* self.gamma[i] as set_state pushes it: self.gamma[i-1] + 1 / (i + 1),
\* from self.gamma[0] = 0.
RECURSIVE Gamma(_)
Gamma(i) == IF i = 0 THEN Zero ELSE RAdd(Gamma(i - 1), Rat(1, i + 1))

\* self.alpha[i] as set_state pushes it: 1.0 / ((1 - kappa[i]) * gamma), with
\* the local gamma.
Alpha(i) ==
    IF i = 0 THEN Zero ELSE XInv(RMul(RSub(One, Kappa(i)), GammaLocal))

GammaArray == [i \in 0..MAX_ORDER |-> Gamma(i)]

AlphaArray == [i \in 0..MAX_ORDER |-> Alpha(i)]

(***************************************************************************)
(* Bounds and inputs of the model.                                         *)
(***************************************************************************)
MaxSteps == 2

MaxRejects == 2

\* The problem's tolerances and the user's first step size.
RTol == Rat(1, 2)

ATol == One

UserH == One

\* y(t0), the values f takes in set_state, and the values a Newton solve returns.
Y0Set == {Zero, One}

F0Set == {Zero}

F1Set == {Zero, One}

YStarSet == {Zero, One, Rat(4, 1)}

\* Iteration counts the Newton statistics report.
NiterSet == {1, NEWTON_MAXITER}

\* The solution points a caller steps to.
TargetSet == {Rat(1, 2), Rat(5, 4), Rat(2, 1)}

\* Newton solver: solves per run, corrections per iteration run, the values
\* passed to set_max_iter, the starting points and the corrections.
MaxSolves == 2

MaxRun == 2

MaxIterSet == {1, 2}

XSet == {0, 1}

DeltaSet == {0, 1}

\* Functions on their own: the step-size factors, the rows of a difference
\* table, the corrections d and the orders whose rows k + 2 exist.
FactorSet == {Rat(1, 2), One, Rat(3, 10), Rat(2, 1)}

RowSet == {Zero, One}

FilledRows == 4

TableSet ==
    {[i \in 0..(NRows - 1) |-> IF i < FilledRows THEN q[i + 1] ELSE Zero] :
        q \in [1..FilledRows -> RowSet]}

CorrectionSet == {One, Rat(2, 1)}

\* Callable: jacobian() calls per run, the step sizes and the alpha passed to
\* set_c, the values of df/dy and of the mass matrix, the points x and the
\* difference tables passed to set_psi_and_y0.
MaxJacEvals == 3

CHSet == {One, Rat(2, 1)}

UnitAlpha == [i \in 0..MAX_ORDER |-> One]

JacSet == {Zero, One}

MassSet == {One, Rat(2, 1)}

\* Upper limits of the truncated roots: 100.0 (set_state clips at 100 h) and
\* 20.0 (the controller clips safety * factor at MAX_FACTOR).
RootCapInit == 10 * 100

RootCapStep == 10 * 20

\* The stand-in for 1 / machine epsilon in the step-size floor |t| * eps.
EpsInv == 10

VARIABLES
    state_set,              \* self.state is Some
    t, h, y,                \* the state's time, step size and solution
    order, n_equal_steps,   \* Bdf::order, Bdf::n_equal_steps
    diff, diff_tmp,         \* the difference table and its scratch copy
    u,                      \* Bdf::u
    callable_set,           \* self.bdf_callable is Some
    rhs_jacobian_is_stale, jacobian_is_stale,   \* BdfCallable's flags
    c, psi_neg_y0,          \* BdfCallable's c and psi_neg_y0
    ls_set,                 \* the Newton solver's linear solver holds a matrix
    ls_c,                   \* the callable's c when that matrix was built
    pc,                     \* position inside step()
    safety, error_norm,     \* the locals `safety` and `error_norm` of step()
    ret,                    \* what the last call returned
    target,                 \* the solution point the caller steps to
    h_acc,                  \* the h of the last accepted attempt
    nsteps, nrejects        \* counters of the bounds

\* The Newton solver (src/src/nonlinear_solver/newton.rs), on its own.
VARIABLES
    problem_set,            \* self.problem is Some
    convergence_set,        \* self.convergence is Some
    conv_max_iter,          \* the max_iter the Convergence was created with
    conv_iter,              \* the Convergence's iteration index
    lin_set,                \* self.linear_solver.is_problem_set()
    max_iter, niter,        \* self.max_iter, self.niter
    xn, x0,                 \* the iterate and the snapshot taken at entry
    updated_jacobian,       \* the local of solve_in_place
    npc,                    \* position inside solve_in_place
    nret,                   \* what the last solve_in_place returned
    restarts, run_niter,    \* restarts of this call; corrections since the last install
    linearised,             \* calls of problem.linearise in this call
    nsolves                 \* counter of the bound

\* The callable (src/src/callable/ode.rs, src/src/op/sdirk.rs), on its own: the
\* fields beyond c, psi_neg_y0 and the two flags above.
VARIABLES
    version,                \* which of the two sources built the callable
    rhs_jac, mass_jac, jac, \* the cached matrices (1 x 1)
    mass_jacobian_is_stale,
    number_of_jac_evals,
    cret                    \* what the callable's last call returned

\* The stepper's functions (_compute_r, _update_step_size,
\* _update_differences, the tables of set_state), on their own.
VARIABLES
    applied                 \* the last application: function, arguments, result

\* The stepper's own variables.
bvars == <<state_set, t, h, y, order, n_equal_steps, diff, diff_tmp, u,
           callable_set, ls_set, ls_c,
           pc, safety, error_norm, ret, target, h_acc, nsteps, nrejects>>

svars == <<bvars, rhs_jacobian_is_stale, jacobian_is_stale, c, psi_neg_y0>>

cvars == <<version, rhs_jac, mass_jac, jac, mass_jacobian_is_stale,
           number_of_jac_evals, cret>>

nvars == <<problem_set, convergence_set, conv_max_iter, conv_iter, lin_set,
           max_iter, niter, xn, x0, updated_jacobian, npc, nret, restarts,
           run_niter, nsolves, linearised>>

fvars == <<applied>>

vars == <<svars, nvars, cvars, fvars>>

(***************************************************************************)
(* Pure functions of the stepper.                                          *)
(***************************************************************************)
RECURSIVE RSumTo(_, _, _)
\* f[lo] + ... + f[hi]
RSumTo(f, lo, hi) == IF hi < lo THEN Zero ELSE RAdd(RSumTo(f, lo, hi - 1), f[hi])

ZeroRows == [i \in 0..(NRows - 1) |-> Zero]

ZeroMatrix(k) == [p \in (0..k) \X (0..k) |-> Zero]

RECURSIVE REntry(_, _, _)
\* Entry (i, j) of the matrix of _compute_r: the matrix starts as zeros and
\* the loops run over i, j in 1..order only.
REntry(i, j, factor) ==
    IF i = 0 \/ j = 0 THEN Zero
    ELSE RMul(REntry(i - 1, j, factor),
              RDiv(RSub(Rat(i - 1, 1), RMul(factor, Rat(j, 1))), Rat(i, 1)))

ComputeR(k, factor) == [p \in (0..k) \X (0..k) |-> REntry(p[1], p[2], factor)]

\* gemm(1, a, b, 0, out) for (k+1) x (k+1) matrices.
MatMul(a, b, k) ==
    [p \in (0..k) \X (0..k) |->
        RSumTo([m \in 0..k |-> RMul(a[<<p[1], m>>], b[<<m, p[2]>>])], 0, k)]

\* _predict: y accumulates rows 1..order of diff.
Predict(yy, D, k) == RAdd(yy, RSumTo(D, 1, k))

\* The rows of diff after _update_step_size: rows 0..order are diff * (R U),
\* written into diff_tmp, which is then swapped with diff.
RescaledRows(D, Dtmp, uu, k, factor) ==
    LET ru == MatMul(ComputeR(k, factor), uu, k)
    IN  [j \in 0..(NRows - 1) |->
            IF j <= k
            THEN RSumTo([i \in 0..k |-> RMul(D[i], ru[<<i, j>>])], 0, k)
            ELSE Dtmp[j]]

\* Mutation of NewRow: the loop adding the old row i + 1, not the updated one.
NewRowFromOld(D, d, k, i) ==
    IF i = k + 2 THEN RSub(d, D[k + 1])
    ELSE IF i = k + 1 THEN d
    ELSE IF i <= k THEN RAdd(D[i], D[i + 1])
    ELSE D[i]

RECURSIVE NewRow(_, _, _, _)
\* Row i of diff after _update_differences(d) at order k.
NewRow(D, d, k, i) ==
    IF i = k + 2 THEN RSub(d, D[k + 1])
    ELSE IF i = k + 1 THEN d
    ELSE IF i <= k THEN RAdd(D[i], NewRow(D, d, k, i + 1))
    ELSE D[i]

UpdatedRows(D, d, k) == [i \in 0..(NRows - 1) |-> NewRow(D, d, k, i)]

\* scale_y = |y| * rtol + atol
Scale(yy) == RAdd(RMul(RAbs(yy), RTol), ATol)

\* error_norm = |error_const[order] * d / scale_y|
ErrorNorm(d, yy, k) == RDiv(RAbs(RMul(ErrorConst(k), d)), Scale(yy))

\* safety = 0.9 * (2 maxiter + 1) / (2 maxiter + niter)
Safety(ni) == Rat(9 * (2 * NEWTON_MAXITER + 1), 10 * (2 * NEWTON_MAXITER + ni))

\* Mutation of ErrorTestPasses: the test against 2 instead of 1.
ErrorTestPassesLoose(norm) == RLe(norm, Rat(2, 1))

\* The test of line 235.
ErrorTestPasses(norm) == RLe(norm, One)

\* Mutation of RejectFactor: the floor 1 instead of MIN_FACTOR.
RejectFactorFloorOne(sf, norm, k) ==
    RMax(One, Quantise(RMul(sf, PowInv(norm, k + 1, RootCapStep))))

\* factor = max(MIN_FACTOR, safety * error_norm^(-1/(order+1)))
RejectFactor(sf, norm, k) ==
    RMax(MIN_FACTOR, Quantise(RMul(sf, PowInv(norm, k + 1, RootCapStep))))

\* The initial step size of set_state: h * d2^(-1/(order+1)), at most 100 h.
InitialStep(hh, y0, f0, f1, k) ==
    LET d2    == RDiv(RAbs(RSub(f1, f0)), Scale(y0))
        new_h == RMul(hh, PowInv(d2, k + 1, RootCapInit))
        cap   == RMul(Rat(100, 1), hh)
    IN  IF RLt(cap, new_h) THEN cap ELSE new_h

\* The three error norms of the controller, as the code computes them:
\* both neighbours use row `order` of diff; the upper one error_const[order+2].
ControlNorms(D, yy, k, en) ==
    <<IF k > 1 THEN RDiv(RAbs(RMul(D[k], ErrorConst(k))), Scale(yy)) ELSE Inf,
      en,
      IF k < MAX_ORDER THEN RDiv(RAbs(RMul(D[k], ErrorConst(k + 2))), Scale(yy)) ELSE Inf>>

\* factors[i] = error_norms[i]^(-1/(i + order)), i = 0, 1, 2 (1-based here).
ControlFactors(D, yy, k, en) ==
    [i \in 1..3 |-> PowInv(ControlNorms(D, yy, k, en)[i], i - 1 + k, RootCapStep)]

\* max_by returns the last of several equal maxima.
MaxIndex(fs) ==
    CHOOSE i \in 1..3 :
        /\ \A j \in 1..3 : RLe(fs[j], fs[i])
        /\ \A j \in (i + 1)..3 : ~RLe(fs[i], fs[j])

\* factor = min(MAX_FACTOR, safety * factors[max_index])
ControlFactor(sf, D, yy, k, en) ==
    LET fs == ControlFactors(D, yy, k, en)
    IN  RMin(MAX_FACTOR, Quantise(RMul(sf, fs[MaxIndex(fs)])))

\* Mutation of HoldsOrder: the test against order instead of order + 1.
HoldsOrderShort(n, k) == n < k

\* The test of line 271, `self.n_equal_steps < self.order + 1`: the accepted
\* step keeps h and the order.
HoldsOrder(n, k) == n < k + 1

\* max_index, counted from 0 as the code counts it.
ControlMaxIndex(D, yy, k, en) == MaxIndex(ControlFactors(D, yy, k, en)) - 1

\* Mutation of OrderAfterControl: `self.order += max_index`, without the - 1.
OrderAfterControlNoOffset(k, max_index) == k + max_index

\* self.order after the controller: `let order = self.order; ...
\* order += max_index - 1` changes the local copy, self.order keeps its value.
OrderAfterControl(k, max_index) == k

RECURSIVE GammaSum(_, _, _, _)
\* gamma[lo] * D[lo] + ... + gamma[hi] * D[hi]
GammaSum(D, gam, lo, hi) ==
    IF hi < lo THEN Zero
    ELSE XAdd(GammaSum(D, gam, lo, hi - 1), XMul(D[hi], gam[hi]))

\* The value set_psi_and_y0(diff, gamma, alpha, order, y0) stores.
PsiNegY0(D, gam, alph, k, y0) ==
    XSub(XMul(XAdd(XMul(D[0], gam[0]), GammaSum(D, gam, 1, k)), alph[k]), y0)

\* The value set_c(h, alpha, order) stores.
CValue(hh, alph, k) == XMul(hh, alph[k])

RECURSIVE TimeFactor(_, _, _, _)
\* time_factor after iteration i of the loop of interpolate.
TimeFactor(i, ts, tt, hh) ==
    LET q == RDiv(RSub(ts, RSub(tt, RMul(hh, Rat(i, 1)))), RMul(hh, Rat(1 + i, 1)))
    IN  IF i = 0 THEN q ELSE RMul(TimeFactor(i - 1, ts, tt, hh), q)

\* The value interpolate(ts) computes.
InterpolateValue(ts, tt, hh, D, k) ==
    RAdd(D[0], RSumTo([i \in 0..(k - 1) |-> RMul(D[i + 1], TimeFactor(i, ts, tt, hh))],
                      0, k - 1))

\* The step-size floor |t| * eps: h is below it.
BelowFloor(hh, tt) == RLt(RMul(hh, Rat(EpsInv, 1)), RAbs(tt))

(***************************************************************************)
(* The BDF callable's Jacobian flags and the Newton solver's linear solver, *)
(* as one Newton solve leaves them.  solve_in_place installs a Jacobian    *)
(* (linearise, which calls the callable's jacobian) at entry when the      *)
(* linear solver holds none, and once more when it restarts.               *)
(***************************************************************************)
\* The restarts a solve may take: only a solve that entered with a matrix
\* installed (updated_jacobian = false) restarts.
Restarts == {r \in BOOLEAN : r => ls_set}

\* linearise was called during the solve.
Linearised(restart) == ~ls_set \/ restart

\* BdfCallable::jacobian clears rhs_jacobian_is_stale and jacobian_is_stale.
RhsStaleAfterSolve(restart) ==
    IF Linearised(restart) THEN FALSE ELSE rhs_jacobian_is_stale

JacStaleAfterSolve(restart) ==
    IF Linearised(restart) THEN FALSE ELSE jacobian_is_stale

\* BdfCallable::set_c: jacobian_is_stale.replace(true)
JacStaleAfterSetC == TRUE

\* The c of the matrix the linear solver holds after a solve: the matrix is
\* rebuilt (linearise, from the callable's Jacobian with its current c) only
\* if the linear solver held none at entry or the solve restarted.
MatrixCAfterSolve(restart) == IF Linearised(restart) THEN c ELSE ls_c

\* The Err arm of step() leaves the callable's rhs flag as the solve left it.
RhsStaleAfterNewtonFail(restart) == RhsStaleAfterSolve(restart)

(***************************************************************************)
(* What a call returns.                                                    *)
(***************************************************************************)
Ret(op, kind, arg, val) == [op |-> op, kind |-> kind, arg |-> arg, val |-> val]

NoRet == Ret("none", "none", Zero, Zero)

\* What a call of the callable returned.
CRet(op, val) == [op |-> op, val |-> val]

\* One application of a function of the stepper.
Application(fn, in, out) == [fn |-> fn, in |-> in, out |-> out]

NoApplication == Application("none", <<>>, <<>>)

\* Mutation of InterpolateResult: interpolate refusing every ts outside [t - h, t].
InterpolateResultChecked(ts) ==
    IF RLe(RSub(t, h), ts) /\ RLe(ts, t)
    THEN Ret("interpolate", "value", ts, InterpolateValue(ts, t, h, diff, order))
    ELSE Ret("interpolate", "err", ts, Zero)

\* interpolate has no check of ts against t or t - h: it returns the value.
InterpolateResult(ts) ==
    Ret("interpolate", "value", ts, InterpolateValue(ts, t, h, diff, order))

\* Mutation of AdvanceTime: the accepted step forgets to advance t.
AdvanceTimeStale(tt, hh) == tt

\* Mutation of FailFactor: a linear-solver error retried without shrinking h.
FailFactorLuOnly(lu) == IF lu THEN One ELSE NEWTON_FAIL_FACTOR

\* The factor of the Err arm: `Err(e) => self._update_step_size(0.3)`, whatever
\* the error e is (lu: it is the linear solver's).
FailFactor(lu) == NEWTON_FAIL_FACTOR

\* `self.state.t += self.state.h`
AdvanceTime(tt, hh) == RAdd(tt, hh)

\* The times a caller may ask interpolate for.
InterpTimes ==
    {t, RSub(t, h), RAdd(t, One), RSub(RSub(t, h), One), target}

(***************************************************************************)
(* Operations.                                                             *)
(***************************************************************************)
Init ==
    /\ state_set = FALSE
    /\ t = Zero /\ h = Zero /\ y = Zero
    /\ order = 1 /\ n_equal_steps = 0
    /\ diff = ZeroRows /\ diff_tmp = ZeroRows
    /\ u = ZeroMatrix(MAX_ORDER)
    /\ callable_set = FALSE
    /\ rhs_jacobian_is_stale = TRUE /\ jacobian_is_stale = TRUE
    /\ c = Zero /\ psi_neg_y0 = Zero
    /\ ls_set = FALSE /\ ls_c = Zero
    /\ pc = "idle"
    /\ safety = Zero /\ error_norm = Zero
    /\ ret = NoRet
    /\ target = Zero
    /\ h_acc = Zero
    /\ nsteps = 0 /\ nrejects = 0
    /\ problem_set = FALSE /\ convergence_set = FALSE
    /\ conv_max_iter = 0 /\ conv_iter = 0
    /\ lin_set = FALSE
    /\ max_iter = DEFAULT_MAX_ITER /\ niter = 0
    /\ xn = 0 /\ x0 = 0
    /\ updated_jacobian = FALSE
    /\ npc = "idle" /\ nret = "none"
    /\ restarts = 0 /\ run_niter = 0
    /\ nsolves = 0
    /\ linearised = 0
    /\ version = "none"
    /\ rhs_jac = Zero /\ mass_jac = Zero /\ jac = Zero
    /\ mass_jacobian_is_stale = TRUE
    /\ number_of_jac_evals = 0
    /\ cret = CRet("none", Zero)
    /\ applied = NoApplication

\* Bdf::set_state on a fresh state (t = 0, y = y0, h = UserH).  The callable
\* is the new one (c = 0, psi_neg_y0 = 0, flags set): `let c = ...` is a local
\* that is not passed on, and neither set_c nor set_psi_and_y0 is called.
SetState(y0, f0, f1) ==
    /\ pc = "idle"
    /\ ~state_set
    /\ state_set' = TRUE
    /\ t' = Zero /\ y' = y0
    /\ order' = 1 /\ n_equal_steps' = 0
    /\ diff' = [ZeroRows EXCEPT ![0] = y0, ![1] = RMul(f1, UserH)]
    /\ h' = InitialStep(UserH, y0, f0, f1, 1)
    /\ callable_set' = TRUE
    /\ rhs_jacobian_is_stale' = TRUE /\ jacobian_is_stale' = TRUE
    /\ c' = Zero /\ psi_neg_y0' = Zero
    /\ ls_set' = FALSE /\ ls_c' = Zero
    /\ u' = ComputeR(1, One)
    /\ target' = Zero
    /\ ret' = NoRet
    /\ UNCHANGED <<nvars, cvars, fvars>>
    /\ UNCHANGED <<diff_tmp, pc, safety, error_norm, h_acc, nsteps, nrejects>>

\* The caller moves on to the next solution point once the loop
\* `while state.t < point.t { step() }` has ended.
SetTarget(p) ==
    /\ pc = "idle"
    /\ state_set
    /\ RLe(target, t)
    /\ RLt(target, p)
    /\ target' = p
    /\ ret' = NoRet
    /\ UNCHANGED <<nvars, cvars, fvars>>
    /\ UNCHANGED <<state_set, t, h, y, order, n_equal_steps, diff, diff_tmp, u,
                   callable_set, rhs_jacobian_is_stale, jacobian_is_stale, ls_set, ls_c, pc,
                   safety, error_norm, h_acc, nsteps, nrejects, c, psi_neg_y0>>

\* step() without a state: the first access through the empty Option panics.
StepNoState ==
    /\ pc = "idle"
    /\ ~(state_set /\ callable_set)
    /\ pc' = "panicked"
    /\ ret' = Ret("step", "panic", Zero, Zero)
    /\ UNCHANGED <<nvars, cvars, fvars>>
    /\ UNCHANGED <<state_set, t, h, y, order, n_equal_steps, diff, diff_tmp, u,
                   callable_set, rhs_jacobian_is_stale, jacobian_is_stale, ls_set, ls_c,
                   safety, error_norm, target, h_acc, nsteps, nrejects, c, psi_neg_y0>>

\* step(), up to the head of the loop: set_rhs_jacobian_is_stale().
StepBegin ==
    /\ pc = "idle"
    /\ state_set /\ callable_set
    /\ RLt(t, target)
    /\ nsteps < MaxSteps
    /\ rhs_jacobian_is_stale' = TRUE /\ jacobian_is_stale' = TRUE
    /\ safety' = Zero /\ error_norm' = Zero
    /\ pc' = "attempt"
    /\ ret' = NoRet
    /\ UNCHANGED <<nvars, cvars, fvars>>
    /\ UNCHANGED <<state_set, t, h, y, order, n_equal_steps, diff, diff_tmp, u,
                   callable_set, ls_set, ls_c, target, h_acc, nsteps, nrejects, c, psi_neg_y0>>

\* _update_step_size(factor), but for the callable's rhs flag.
UpdateStepSize(factor) ==
    /\ h' = RMul(h, factor)
    /\ n_equal_steps' = 0
    /\ diff' = RescaledRows(diff, diff_tmp, u, order, factor)
    /\ diff_tmp' = diff
    /\ y' = Predict(y, diff', order)
    /\ psi_neg_y0' = PsiNegY0(diff', GammaArray, AlphaArray, order, y')
    /\ c' = CValue(h', AlphaArray, order)
    /\ jacobian_is_stale' = JacStaleAfterSetC

\* The Err arm: the Newton solve failed (no convergence, or the linear solver's
\* error `lu`, which leaves the solve at once).
NewtonFail(restart, lu) ==
    /\ pc = "attempt"
    /\ nrejects < MaxRejects
    /\ lu \/ Linearised(restart)
    /\ UpdateStepSize(FailFactor(lu))
    /\ rhs_jacobian_is_stale' = RhsStaleAfterNewtonFail(restart)
    /\ ls_set' = TRUE
    /\ ls_c' = MatrixCAfterSolve(restart)
    /\ nrejects' = nrejects + 1
    /\ UNCHANGED <<nvars, cvars, fvars>>
    /\ UNCHANGED <<state_set, t, order, u, callable_set, pc, safety, error_norm, ret, target,
                   h_acc, nsteps>>

\* The Ok arm with error_norm > 1.
ErrorTestFail(ystar, ni, restart) ==
    /\ pc = "attempt"
    /\ nrejects < MaxRejects
    /\ LET norm == ErrorNorm(RSub(ystar, y), ystar, order)
       IN  /\ ~ErrorTestPasses(norm)
           /\ UpdateStepSize(RejectFactor(Safety(ni), norm, order))
           /\ safety' = Safety(ni)
           /\ error_norm' = norm
    /\ rhs_jacobian_is_stale' = RhsStaleAfterSolve(restart)
    /\ ls_set' = TRUE
    /\ ls_c' = MatrixCAfterSolve(restart)
    /\ nrejects' = nrejects + 1
    /\ UNCHANGED <<nvars, cvars, fvars>>
    /\ UNCHANGED <<state_set, t, order, u, callable_set, pc, ret, target, h_acc,
                   nsteps>>

\* The Ok arm with error_norm <= 1, and the accepted step up to the test of
\* n_equal_steps.
Accept(ystar, ni, restart) ==
    /\ pc = "attempt"
    /\ LET d == RSub(ystar, y)
           norm == ErrorNorm(d, ystar, order)
       IN  /\ ErrorTestPasses(norm)
           /\ error_norm' = norm
           /\ t' = AdvanceTime(t, h)
           /\ y' = RAdd(y, d)
           /\ IF order + 2 <= NRows - 1
              THEN diff' = UpdatedRows(diff, d, order) /\ pc' = "control"
              ELSE diff' = diff /\ pc' = "panicked"
    /\ safety' = Safety(ni)
    /\ n_equal_steps' = n_equal_steps + 1
    /\ rhs_jacobian_is_stale' = RhsStaleAfterSolve(restart)
    /\ jacobian_is_stale' = JacStaleAfterSolve(restart)
    /\ ls_set' = TRUE
    /\ ls_c' = MatrixCAfterSolve(restart)
    /\ h_acc' = h
    /\ nsteps' = nsteps + 1
    /\ UNCHANGED <<nvars, cvars, fvars>>
    /\ UNCHANGED <<state_set, h, order, diff_tmp, u, callable_set, ret, target,
                   nrejects, c, psi_neg_y0>>

\* n_equal_steps < order + 1: predict, refresh psi, return.
ControlHold ==
    /\ pc = "control"
    /\ HoldsOrder(n_equal_steps, order)
    /\ y' = Predict(y, diff, order)
    /\ psi_neg_y0' = PsiNegY0(diff, GammaArray, AlphaArray, order, y')
    /\ pc' = "idle"
    /\ ret' = Ret("step", "value", Zero, t)
    /\ safety' = Zero /\ error_norm' = Zero
    /\ UNCHANGED <<nvars, cvars, fvars>>
    /\ UNCHANGED <<state_set, t, h, order, n_equal_steps, diff, diff_tmp, u,
                   callable_set, rhs_jacobian_is_stale, jacobian_is_stale, c, ls_set, ls_c,
                   target, h_acc, nsteps, nrejects>>

\* Otherwise: the controller.  `order += max_index - 1` changes the local
\* copy of the order only.
ControlChange ==
    /\ pc = "control"
    /\ ~HoldsOrder(n_equal_steps, order)
    /\ order' = OrderAfterControl(order, ControlMaxIndex(diff, y, order, error_norm))
    /\ UpdateStepSize(ControlFactor(safety, diff, y, order, error_norm))
    /\ pc' = "idle"
    /\ ret' = Ret("step", "value", Zero, t)
    /\ safety' = Zero /\ error_norm' = Zero
    /\ UNCHANGED <<nvars, cvars, fvars>>
    /\ UNCHANGED <<state_set, t, u, callable_set, rhs_jacobian_is_stale,
                   ls_set, ls_c, target, h_acc, nsteps, nrejects>>

\* interpolate(ts)
Interpolate(ts) ==
    /\ pc = "idle"
    /\ IF state_set
       THEN ret' = InterpolateResult(ts) /\ pc' = pc
       ELSE ret' = Ret("interpolate", "panic", ts, Zero) /\ pc' = "panicked"
    /\ UNCHANGED <<nvars, cvars, fvars>>
    /\ UNCHANGED <<state_set, t, h, y, order, n_equal_steps, diff, diff_tmp, u,
                   callable_set, rhs_jacobian_is_stale, jacobian_is_stale, ls_set, ls_c,
                   safety, error_norm, target, h_acc, nsteps, nrejects, c, psi_neg_y0>>

Next ==
    \/ \E y0 \in Y0Set, f0 \in F0Set, f1 \in F1Set : SetState(y0, f0, f1)
    \/ \E p \in TargetSet : SetTarget(p)
    \/ StepNoState
    \/ StepBegin
    \/ \E restart \in Restarts, lu \in BOOLEAN : NewtonFail(restart, lu)
    \/ \E ystar \in YStarSet, ni \in NiterSet, restart \in Restarts :
          ErrorTestFail(ystar, ni, restart)
    \/ \E ystar \in YStarSet, ni \in NiterSet, restart \in Restarts :
          Accept(ystar, ni, restart)
    \/ ControlHold
    \/ ControlChange
    \/ \E ts \in InterpTimes : Interpolate(ts)

Spec == Init /\ [][Next]_vars

(***************************************************************************)
(* The stepper with the end of a state's life: the operations above and    *)
(* clear_state.                                                            *)
(***************************************************************************)
\* Bdf::clear_state: `self.state = None; self.callable = None`.
ClearState ==
    /\ pc = "idle"
    /\ state_set
    /\ state_set' = FALSE
    /\ callable_set' = FALSE
    /\ ret' = Ret("clear_state", "unit", Zero, Zero)
    /\ UNCHANGED <<nvars, cvars, fvars>>
    /\ UNCHANGED <<t, h, y, order, n_equal_steps, diff, diff_tmp, u,
                   rhs_jacobian_is_stale, jacobian_is_stale, ls_set, ls_c, pc,
                   safety, error_norm, target, h_acc, nsteps, nrejects, c, psi_neg_y0>>

NextLife ==
    \/ \E y0 \in Y0Set, f0 \in F0Set, f1 \in F1Set : SetState(y0, f0, f1)
    \/ \E p \in TargetSet : SetTarget(p)
    \/ StepNoState
    \/ StepBegin
    \/ \E restart \in Restarts, lu \in BOOLEAN : NewtonFail(restart, lu)
    \/ \E ystar \in YStarSet, ni \in NiterSet, restart \in Restarts :
          ErrorTestFail(ystar, ni, restart)
    \/ \E ystar \in YStarSet, ni \in NiterSet, restart \in Restarts :
          Accept(ystar, ni, restart)
    \/ ControlHold
    \/ ControlChange
    \/ \E ts \in InterpTimes : Interpolate(ts)
    \/ ClearState

SpecLife == Init /\ [][NextLife]_vars

(***************************************************************************)
(* The Newton solver on its own: NewtonNonlinearSolver of newton.rs.       *)
(* One solve_in_place call is SolveBegin, then one action per pass of the  *)
(* inner loop, then Restart or GiveUp when the inner loop breaks.  The     *)
(* corrections and the verdicts of the Convergence monitor are inputs.     *)
(***************************************************************************)
\* Convergence::check_new_iteration at iteration index `iter`: Converged and
\* Diverged depend on the correction; MaximumIterations iff iter >= max_iter,
\* else Continue.
ConvergenceStatuses(iter, limit) ==
    {"Converged", "Diverged"} \cup
        (IF iter >= limit THEN {"MaximumIterations"} ELSE {"Continue"})

\* Mutation of NeedsRestart: restarting whatever updated_jacobian says.
NeedsRestartAlways(updated) == TRUE

\* `if !updated_jacobian` on line 119.
NeedsRestart(updated) == ~updated

\* `updated_jacobian = true` on line 123.
UpdatedAfterRestart == TRUE

\* `xn.copy_from(&x0)` on line 122.
RestoredIterate(x, snapshot) == snapshot

\* set_max_iter(m)
SetMaxIter(m) ==
    /\ npc = "idle"
    /\ max_iter' = m
    /\ UNCHANGED <<svars, cvars, fvars>>
    /\ UNCHANGED <<problem_set, convergence_set, conv_max_iter, conv_iter, lin_set,
                   niter, xn, x0, updated_jacobian, npc, nret, restarts, run_niter,
                   nsolves, linearised>>

\* Solver::set_problem of the Newton solver.
NewtonSetProblem ==
    /\ npc = "idle"
    /\ problem_set' = TRUE
    /\ lin_set' = FALSE
    /\ convergence_set' = TRUE
    /\ conv_max_iter' = IF convergence_set THEN conv_max_iter ELSE max_iter
    /\ UNCHANGED <<svars, cvars, fvars>>
    /\ UNCHANGED <<conv_iter, max_iter, niter, xn, x0, updated_jacobian, npc, nret,
                   restarts, run_niter, nsolves, linearised>>

\* Solver::clear_problem of the Newton solver.
NewtonClearProblem ==
    /\ npc = "idle"
    /\ problem_set
    /\ problem_set' = FALSE
    /\ UNCHANGED <<svars, cvars, fvars>>
    /\ UNCHANGED <<convergence_set, conv_max_iter, conv_iter, lin_set, max_iter,
                   niter, xn, x0, updated_jacobian, npc, nret, restarts, run_niter,
                   nsolves, linearised>>

\* Solver::is_problem_set of the Newton solver.
IsProblemSet == problem_set

\* Mutation of ProblemNotSet: the guard looks at the convergence monitor only.
ProblemNotSetConvergenceOnly == ~convergence_set

\* The guard of solve_in_place:
\* `self.convergence.is_none() || self.problem.is_none()`.
ProblemNotSet == ~convergence_set \/ ~problem_set

\* solve_in_place(x) without a problem: the early return of line 83, before
\* anything has touched x or the linear solver.
SolveNotSet(x) ==
    /\ npc = "idle"
    /\ ProblemNotSet
    /\ xn' = x
    /\ nret' = "not_set"
    /\ UNCHANGED <<svars, cvars, fvars>>
    /\ UNCHANGED <<problem_set, convergence_set, conv_max_iter, conv_iter, lin_set,
                   max_iter, niter, x0, updated_jacobian, npc, restarts, run_niter,
                   nsolves, linearised>>

\* problem.linearise(x0) asks the operator for its Jacobian once.
JacobianCallsPerLinearise == 1

\* Mutation of UpdatedAtEntry: the install at entry is not remembered.
UpdatedAtEntryForgotten(set) == FALSE

\* `let mut updated_jacobian = if self.linear_solver.is_problem_set() { false }
\* else { ...linearise...; true }`
UpdatedAtEntry(set) == ~set

\* solve_in_place(x), lines 85-96: snapshot, reset of the monitor, the install
\* at entry when the linear solver holds no problem.
SolveBegin(x) ==
    /\ npc = "idle"
    /\ ~ProblemNotSet
    /\ nsolves < MaxSolves
    /\ nsolves' = nsolves + 1
    /\ xn' = x /\ x0' = x
    /\ conv_iter' = 0
    /\ updated_jacobian' = UpdatedAtEntry(lin_set)
    /\ linearised' = IF lin_set THEN 0 ELSE 1
    /\ lin_set' = TRUE
    /\ niter' = 0
    /\ restarts' = 0 /\ run_niter' = 0
    /\ npc' = "iterate"
    /\ nret' = "none"
    /\ UNCHANGED <<svars, cvars, fvars>>
    /\ UNCHANGED <<problem_set, convergence_set, conv_max_iter, max_iter>>

\* One pass of the inner loop up to the verdict of the monitor.
Correction(delta, status) ==
    /\ npc = "iterate"
    /\ niter' = niter + 1
    /\ run_niter' = run_niter + 1
    /\ xn' = xn - delta
    /\ conv_iter' = conv_iter + 1
    /\ status \in ConvergenceStatuses(conv_iter', conv_max_iter)
    /\ UNCHANGED <<svars, cvars, fvars>>
    /\ UNCHANGED <<problem_set, convergence_set, conv_max_iter, lin_set, max_iter,
                   x0, updated_jacobian, restarts, nsolves, linearised>>

\* ConvergenceStatus::Continue
IterContinue(delta) ==
    /\ run_niter + 1 < MaxRun
    /\ Correction(delta, "Continue")
    /\ npc' = "iterate"
    /\ nret' = nret

\* ConvergenceStatus::Converged => return Ok(())
IterConverged(delta) ==
    /\ Correction(delta, "Converged")
    /\ npc' = "idle"
    /\ nret' = "ok"

\* ConvergenceStatus::Diverged | MaximumIterations => break
IterBreak(delta, status) ==
    /\ status \in {"Diverged", "MaximumIterations"}
    /\ Correction(delta, status)
    /\ npc' = "outer"
    /\ nret' = nret

\* `self.linear_solver.solve_in_place(&mut tmp)?` returns the linear solver's error.
LinearSolveError ==
    /\ npc = "iterate"
    /\ niter' = niter + 1
    /\ npc' = "idle"
    /\ nret' = "linear_solver_error"
    /\ UNCHANGED <<svars, cvars, fvars>>
    /\ UNCHANGED <<problem_set, convergence_set, conv_max_iter, conv_iter, lin_set,
                   max_iter, xn, x0, updated_jacobian, restarts, run_niter, nsolves, linearised>>

\* Lines 119-124: refresh the Jacobian, restore x, run the inner loop again.
Restart ==
    /\ npc = "outer"
    /\ NeedsRestart(updated_jacobian)
    /\ lin_set' = TRUE
    /\ xn' = RestoredIterate(xn, x0)
    /\ updated_jacobian' = UpdatedAfterRestart
    /\ restarts' = restarts + 1
    /\ run_niter' = 0
    /\ npc' = "iterate"
    /\ UNCHANGED <<svars, cvars, fvars>>
    /\ linearised' = linearised + 1
    /\ UNCHANGED <<problem_set, convergence_set, conv_max_iter, conv_iter, max_iter,
                   niter, x0, nret, nsolves>>

\* Lines 125-129: Err("Newton iteration did not converge").
GiveUp ==
    /\ npc = "outer"
    /\ ~NeedsRestart(updated_jacobian)
    /\ npc' = "idle"
    /\ nret' = "not_converged"
    /\ UNCHANGED <<svars, cvars, fvars>>
    /\ UNCHANGED <<problem_set, convergence_set, conv_max_iter, conv_iter, lin_set,
                   max_iter, niter, xn, x0, updated_jacobian, restarts, run_niter,
                   nsolves, linearised>>

NextNewton ==
    \/ \E m \in MaxIterSet : SetMaxIter(m)
    \/ NewtonSetProblem
    \/ NewtonClearProblem
    \/ \E x \in XSet : SolveNotSet(x)
    \/ \E x \in XSet : SolveBegin(x)
    \/ \E delta \in DeltaSet : IterContinue(delta)
    \/ \E delta \in DeltaSet : IterConverged(delta)
    \/ \E delta \in DeltaSet, status \in {"Diverged", "MaximumIterations"} :
          IterBreak(delta, status)
    \/ LinearSolveError
    \/ Restart
    \/ GiveUp

SpecNewton == Init /\ [][NextNewton]_vars

(***************************************************************************)
(* The claims about the stepper (checked under Spec).                      *)
(***************************************************************************)
\* C1: on a stepper whose state was never set, step() and interpolate(t)
\* each return an error; they never panic.
C1_ErrorBeforeSetProblem ==
    (~state_set /\ ret.op \in {"step", "interpolate"}) => ret.kind = "err"

\* C2: step() does not go on shrinking h: once h has fallen below the floor
\* derived from |t| * eps it returns StepSizeTooSmall instead of making
\* another attempt, so no attempt is ever made with h below the floor.
C2_NoAttemptBelowFloor == pc = "attempt" => ~BelowFloor(h, t)

\* C3: interpolate(ts) returns an error for every ts > t and every
\* ts < t - h (and a value for t - h <= ts <= t).
C3_InterpolateRangeChecked ==
    (ret.op = "interpolate" /\ state_set) =>
        IF RLe(RSub(t, h), ret.arg) /\ RLe(ret.arg, t)
        THEN ret.kind = "value"
        ELSE ret.kind = "err"

C5_InterpolateAtCurrentTime ==
    (ret.op = "interpolate" /\ ret.kind = "value" /\ ret.arg = t) =>
        (ret.val = y /\ ret.val = diff[0])

\* C6: before every step attempt row 0 of D equals the current solution y.
C6_RowZeroIsSolution == pc = "attempt" => diff[0] = y

\* C7: an attempt is accepted if and only if the Newton solve succeeded and
\* the error norm is <= 1; right after an accepted step
\* |error_const[k] * D[k+1] / w| <= 1 for the order k of that step.
C7_AcceptIffErrorTestPasses ==
    [][pc = "attempt" =>
        /\ (\E restart \in Restarts, lu \in BOOLEAN : NewtonFail(restart, lu))
              => pc' = "attempt"
        /\ ~(\E restart \in Restarts, lu \in BOOLEAN : NewtonFail(restart, lu))
              => (pc' = "control" <=> RLe(error_norm', One))
        /\ pc' = "control" =>
              RLe(RDiv(RAbs(RMul(ErrorConst(order), diff'[order + 1])),
                       RAdd(RMul(RAbs(y'), RTol), ATol)), One)]_vars

\* A step accepted after a rejection, with a nonzero error norm.
C7_Witness == pc = "control" /\ nrejects > 0 /\ error_norm # Zero

\* C8: t changes only when an attempt is accepted, and then by exactly the h
\* of that attempt; rejected attempts leave t unchanged and t strictly
\* increases with every accepted step.
C8_TimeAdvancesOnlyOnAccept ==
    [][/\ t' # t => (pc = "attempt" /\ pc' = "control")
       /\ (pc = "attempt" /\ pc' = "control") => (t' = RAdd(t, h) /\ RLt(t, t'))
       /\ (pc = "attempt" /\ pc' = "attempt") => t' = t]_vars

\* The first step accepted after a rejected attempt: t went from 0 to h.
C8_Witness == pc = "control" /\ nsteps = 1 /\ nrejects > 0 /\ t = h /\ RLt(Zero, t)

\* C9: when the Newton solve of an attempt fails, the stepper multiplies h
\* by 0.3, marks the rhs Jacobian stale on the callable and retries inside
\* the same step() call without advancing t.
C9_NewtonFailureMarksStale ==
    [][(\E restart \in Restarts, lu \in BOOLEAN : NewtonFail(restart, lu)) =>
          /\ h' = RMul(h, <<3, 10>>)
          /\ rhs_jacobian_is_stale'
          /\ pc' = "attempt"
          /\ t' = t]_vars

\* C11: the order k is always in 1..MAX_ORDER, it is 1 after every
\* set_state, it changes only in the controller of an accepted step, and
\* then by at most one.
C11_OrderInRange ==
    /\ [](order \in 1..MAX_ORDER)
    /\ [][/\ (~state_set /\ state_set') => order' = 1
          /\ order' # order => pc = "control"
          /\ order' - order \in {-1, 0, 1}]_vars

\* The controller has just run on the second of two accepted steps.
C11_Witness ==
    /\ pc = "idle" /\ ret.op = "step" /\ nsteps = 2 /\ nrejects = 0
    /\ n_equal_steps = 0 /\ order = 1

\* C12: a linear-solver error raised inside the Newton solve is handled by
\* step() like non-convergence: the attempt is rejected, h is multiplied by
\* 0.3 and the attempt is retried; step() does not return.
C12_LinearSolverErrorRejects ==
    [][(\E restart \in Restarts : NewtonFail(restart, TRUE)) =>
          /\ h' = RMul(h, <<3, 10>>)
          /\ pc' = "attempt"
          /\ t' = t /\ nsteps' = nsteps
          /\ ret' = ret]_vars

\* Second step() call, first attempt rejected without an Ok arm (safety = 0)
\* and without a linearisation (the rhs flag set by step() is still set while
\* the linear solver holds a matrix): the solve ended on the linear solver's
\* error.
C12_Witness ==
    /\ pc = "attempt" /\ nsteps = 1 /\ nrejects = 1 /\ n_equal_steps = 0
    /\ safety = Zero /\ rhs_jacobian_is_stale /\ ls_set

\* C13: once the state has been taken out of the stepper (clear_state), the
\* next step() and the next interpolate() return an error.
C13_ErrorAfterStateTaken ==
    [][(ret.op = "clear_state" /\ ret'.op \in {"step", "interpolate"}) =>
          ret'.kind = "err"]_vars

\* C26: after _update_step_size has changed c, the next attempt's Newton
\* solve does not start from a factorisation built with the old c: whenever
\* an attempt starts with a matrix installed in the linear solver, that
\* matrix was built with the callable's current c.
C26_MatrixHasCurrentC ==
    (pc = "attempt" /\ ls_set) => ls_c = c

\* C28: after an accepted step the order or the step size changes only if
\* n_equal_steps >= k + 1; otherwise the step only re-predicts and refreshes
\* psi, and h, k, c, the differences and n_equal_steps stay as they are.
\* n_equal_steps counts the accepted steps since h was last set: every
\* accepted step adds exactly 1, every other change of it is a reset to 0,
\* and every change of h resets it.
C28_ChangeAfterEnoughEqualSteps ==
    [][/\ (pc = "control" /\ (h' # h \/ order' # order)) =>
              n_equal_steps >= order + 1
       /\ (pc = "control" /\ n_equal_steps < order + 1) =>
              /\ h' = h /\ order' = order /\ c' = c /\ diff' = diff
              /\ n_equal_steps' = n_equal_steps
              /\ y' = Predict(y, diff, order)
              /\ psi_neg_y0' = PsiNegY0(diff, GammaArray, AlphaArray, order, y')
       /\ (pc = "attempt" /\ pc' = "control") => n_equal_steps' = n_equal_steps + 1
       /\ n_equal_steps' # n_equal_steps =>
              \/ n_equal_steps' = 0
              \/ pc = "attempt" /\ pc' = "control"
       /\ h' # h => n_equal_steps' = 0]_vars

\* The controller has changed h after an accepted step.
C28_Witness ==
    /\ pc = "idle" /\ ret.op = "step" /\ nsteps >= 2
    /\ n_equal_steps = 0 /\ h # h_acc

\* C29: the controller at order k uses norm_{k-1} = |error_const[k-1] D[k]|/w
\* (+inf if k = 1), norm_k = the accepted error norm and norm_{k+1} =
\* |error_const[k+1] D[k+2]|/w (+inf if k = MAX_ORDER); the order after it is
\* a candidate i of k-1, k, k+1 with the largest factor norm_i^(-1/(i+1)).
C29_OrderIsBestCandidate ==
    [][ControlChange =>
          LET w == Scale(y)
              norm(i) ==
                  IF i = order THEN error_norm
                  ELSE IF i = order - 1
                       THEN IF order > 1
                            THEN RDiv(RAbs(RMul(ErrorConst(order - 1), diff[order])), w)
                            ELSE Inf
                       ELSE IF order < MAX_ORDER
                            THEN RDiv(RAbs(RMul(ErrorConst(order + 1), diff[order + 2])), w)
                            ELSE Inf
              factor(i) == PowInv(norm(i), i + 1, RootCapStep)
              cands == {order - 1, order, order + 1}
          IN  /\ order' \in cands
              /\ \A j \in cands : RLe(factor(j), factor(order'))]_vars

\* C30: an error-test rejection (the Newton solve converged, error norm > 1)
\* multiplies h by r = max(MIN_FACTOR, safety * norm^(-1/(k+1))), and
\* MIN_FACTOR <= r < 1: h strictly decreases, to no less than a fifth.
C30_RejectionShrinksWithinBounds ==
    [][(\E ystar \in YStarSet, ni \in NiterSet, restart \in Restarts :
            ErrorTestFail(ystar, ni, restart)) =>
          LET r == RMax(MIN_FACTOR,
                        Quantise(RMul(safety', PowInv(error_norm', order + 1, RootCapStep))))
          IN  /\ RLt(One, error_norm')
              /\ h' = RMul(h, r)
              /\ RLe(MIN_FACTOR, r) /\ RLt(r, One)
              /\ RLt(h', h)
              /\ RLe(h, RMul(Rat(5, 1), h'))]_vars

\* An attempt has just been rejected by the error test.
C30_Witness ==
    /\ pc = "attempt" /\ nrejects >= 1
    /\ RLt(One, error_norm) /\ safety # Zero

\* C34: after set_state U is R(MAX_ORDER, 1), a (MAX_ORDER + 1) x
\* (MAX_ORDER + 1) matrix.
C34_UIsRAtMaxOrder ==
    state_set =>
        /\ DOMAIN u = (0..MAX_ORDER) \X (0..MAX_ORDER)
        /\ u = ComputeR(MAX_ORDER, One)

\* C17: before every step attempt the c stored in the callable is h * alpha_k
\* for the stepper's current h and order k, the first attempt after set_state
\* included.
C17_CIsHAlpha ==
    pc = "attempt" => c = XMul(h, AlphaArray[order])

\* C18: before every step attempt the history term stored in the callable is
\* alpha_k * (gamma_1 D[1] + ... + gamma_k D[k]) - y0 for the stepper's
\* current D, order k and predicted value y0.
C18_PsiIsHistoryTerm ==
    pc = "attempt" =>
        psi_neg_y0 = XSub(XMul(AlphaArray[order],
                               GammaSum(diff, GammaArray, 1, order)), y)

(***************************************************************************)
(* The callable on its own: a BdfCallable built by one of the two sources  *)
(* and driven by its caller's calls.  sdirk.rs declares the field `phi`    *)
(* and reads `self.psi_neg_y0` in call_inplace: both are psi_neg_y0 here.  *)
(* The right-hand side, its Jacobian and the mass matrix are inputs of the *)
(* environment at every call.                                              *)
(***************************************************************************)
\* `mass_jac - rhs_jac * c`
NewtonMatrix(mj, rj, cc) == RSub(mj, RMul(rj, cc))

\* The difference tables a caller passes to set_psi_and_y0.
DiffTables == {[ZeroRows EXCEPT ![0] = d0, ![1] = d1] : d0 \in Y0Set, d1 \in F1Set}

\* BdfCallable::new of ode.rs.
NewOde ==
    /\ version = "none"
    /\ version' = "ode"
    /\ c' = Zero /\ psi_neg_y0' = Zero
    /\ rhs_jac' = Zero /\ jac' = Zero /\ mass_jac' = Zero
    /\ rhs_jacobian_is_stale' = TRUE /\ jacobian_is_stale' = TRUE
    /\ mass_jacobian_is_stale' = TRUE
    /\ cret' = CRet("new", Zero)
    /\ UNCHANGED <<fvars, bvars, nvars, number_of_jac_evals>>

\* BdfCallable::set_c of ode.rs.
OdeSetC(hh, alph, k) ==
    /\ version = "ode"
    /\ c' = CValue(hh, alph, k)
    /\ jacobian_is_stale' = TRUE
    /\ cret' = CRet("set_c", Zero)
    /\ UNCHANGED <<fvars, bvars, nvars, version, psi_neg_y0, rhs_jac, mass_jac, jac,
                   rhs_jacobian_is_stale, mass_jacobian_is_stale, number_of_jac_evals>>

\* BdfCallable::set_psi_and_y0 of ode.rs.
OdeSetPsiAndY0(D, gam, alph, k, y0) ==
    /\ version = "ode"
    /\ psi_neg_y0' = PsiNegY0(D, gam, alph, k, y0)
    /\ cret' = CRet("set_psi_and_y0", Zero)
    /\ UNCHANGED <<fvars, bvars, nvars, version, c, rhs_jac, mass_jac, jac,
                   rhs_jacobian_is_stale, jacobian_is_stale, mass_jacobian_is_stale,
                   number_of_jac_evals>>

\* BdfCallable::set_rhs_jacobian_is_stale of ode.rs.
OdeSetRhsJacobianIsStale ==
    /\ version = "ode"
    /\ rhs_jacobian_is_stale' = TRUE
    /\ jacobian_is_stale' = TRUE
    /\ cret' = CRet("set_rhs_jacobian_is_stale", Zero)
    /\ UNCHANGED <<fvars, bvars, nvars, version, c, psi_neg_y0, rhs_jac, mass_jac, jac,
                   mass_jacobian_is_stale, number_of_jac_evals>>

\* The value of call(x) of ode.rs: y = f(x); tmp = x - psi_neg_y0;
\* gemv(tmp, p, 1, -c, y), that is y = M tmp - c y.
OdeCallValue(x, f, m) == RSub(RMul(m, RSub(x, psi_neg_y0)), RMul(c, f))

\* Mutation of OdeCall: a call that brings the Newton matrix up to date.
OdeCallRefreshing(x, f, m) ==
    /\ version = "ode"
    /\ cret' = CRet("call", OdeCallValue(x, f, m))
    /\ jac' = NewtonMatrix(mass_jac, rhs_jac, c)
    /\ jacobian_is_stale' = FALSE
    /\ UNCHANGED <<fvars, bvars, nvars, version, c, psi_neg_y0, rhs_jac, mass_jac,
                   rhs_jacobian_is_stale, mass_jacobian_is_stale,
                   number_of_jac_evals>>

\* Callable::call of ode.rs, where f(x) = f and the mass matrix is m.
OdeCall(x, f, m) ==
    /\ version = "ode"
    /\ cret' = CRet("call", OdeCallValue(x, f, m))
    /\ UNCHANGED <<fvars, bvars, nvars, version, c, psi_neg_y0, rhs_jac, mass_jac, jac,
                   rhs_jacobian_is_stale, jacobian_is_stale, mass_jacobian_is_stale,
                   number_of_jac_evals>>

\* Callable::jacobian_action of ode.rs, where (df/dy) v = jv: y = jv;
\* gemv(v, p, 1, -c, y).
OdeJacobianAction(v, jv, m) ==
    /\ version = "ode"
    /\ cret' = CRet("jacobian_action", RSub(RMul(m, v), RMul(c, jv)))
    /\ UNCHANGED <<fvars, bvars, nvars, version, c, psi_neg_y0, rhs_jac, mass_jac, jac,
                   rhs_jacobian_is_stale, jacobian_is_stale, mass_jacobian_is_stale,
                   number_of_jac_evals>>

\* Mutation of OdeRhsJacAfter: df/dy re-evaluated by every jacobian() call.
OdeRhsJacAlways(jr) == jr

\* rhs_jac after jacobian() of ode.rs: replaced by rhs.jacobian(x, p) if
\* rhs_jacobian_is_stale is set.
OdeRhsJacAfter(jr) == IF rhs_jacobian_is_stale THEN jr ELSE rhs_jac

\* Jacobian::jacobian of ode.rs, where df/dy = jr and the mass Jacobian is jm:
\* the mass Jacobian is replaced whenever its flag is set and the flag is
\* never cleared; the rhs branch does not set jacobian_is_stale.
OdeJacobian(jr, jm) ==
    /\ version = "ode"
    /\ mass_jac' = IF mass_jacobian_is_stale THEN jm ELSE mass_jac
    /\ rhs_jac' = OdeRhsJacAfter(jr)
    /\ rhs_jacobian_is_stale' = FALSE
    /\ jac' = IF jacobian_is_stale THEN NewtonMatrix(mass_jac', rhs_jac', c) ELSE jac
    /\ jacobian_is_stale' = FALSE
    /\ cret' = CRet("jacobian", jac')
    /\ UNCHANGED <<fvars, bvars, nvars, version, c, psi_neg_y0, mass_jacobian_is_stale,
                   number_of_jac_evals>>

\* BdfCallable::new of sdirk.rs.
NewSdirk ==
    /\ version = "none"
    /\ version' = "sdirk"
    /\ c' = Zero /\ psi_neg_y0' = Zero
    /\ rhs_jac' = Zero /\ jac' = Zero /\ mass_jac' = Zero
    /\ rhs_jacobian_is_stale' = TRUE /\ jacobian_is_stale' = TRUE
    /\ mass_jacobian_is_stale' = TRUE
    /\ number_of_jac_evals' = 0
    /\ cret' = CRet("new", Zero)
    /\ UNCHANGED <<fvars, bvars, nvars>>

\* Mutation of SdirkJacAfterSetC: the eager recomputation with the old c.
SdirkJacAfterSetCOldC(hh, al) == NewtonMatrix(mass_jac, rhs_jac, c)

\* The matrix set_c of sdirk.rs recomputes: it reads self.c after the replace.
SdirkJacAfterSetC(hh, al) == NewtonMatrix(mass_jac, rhs_jac, RMul(hh, al))

\* set_c of sdirk.rs.
SdirkSetC(hh, al) ==
    /\ version = "sdirk"
    /\ c' = RMul(hh, al)
    /\ IF ~rhs_jacobian_is_stale /\ ~mass_jacobian_is_stale
       THEN jac' = SdirkJacAfterSetC(hh, al) /\ jacobian_is_stale' = jacobian_is_stale
       ELSE jac' = jac /\ jacobian_is_stale' = TRUE
    /\ cret' = CRet("set_c", Zero)
    /\ UNCHANGED <<fvars, bvars, nvars, version, psi_neg_y0, rhs_jac, mass_jac,
                   rhs_jacobian_is_stale, mass_jacobian_is_stale, number_of_jac_evals>>

\* set_phi of sdirk.rs.
SdirkSetPhi(phi) ==
    /\ version = "sdirk"
    /\ psi_neg_y0' = phi
    /\ cret' = CRet("set_phi", Zero)
    /\ UNCHANGED <<fvars, bvars, nvars, version, c, rhs_jac, mass_jac, jac,
                   rhs_jacobian_is_stale, jacobian_is_stale, mass_jacobian_is_stale,
                   number_of_jac_evals>>

\* set_rhs_jacobian_is_stale of sdirk.rs.
SdirkSetRhsJacobianIsStale ==
    /\ version = "sdirk"
    /\ rhs_jacobian_is_stale' = TRUE
    /\ jacobian_is_stale' = TRUE
    /\ cret' = CRet("set_rhs_jacobian_is_stale", Zero)
    /\ UNCHANGED <<fvars, bvars, nvars, version, c, psi_neg_y0, rhs_jac, mass_jac, jac,
                   mass_jacobian_is_stale, number_of_jac_evals>>

\* call_inplace of sdirk.rs, where f(t, phi + c x) = f and M x = mx:
\* y = f; tmp = mx; y = tmp - y.
SdirkCallInplace(f, mx) ==
    /\ version = "sdirk"
    /\ cret' = CRet("call_inplace", RSub(mx, f))
    /\ UNCHANGED <<fvars, bvars, nvars, version, c, psi_neg_y0, rhs_jac, mass_jac, jac,
                   rhs_jacobian_is_stale, jacobian_is_stale, mass_jacobian_is_stale,
                   number_of_jac_evals>>

\* jac_mul_inplace of sdirk.rs, where M v = mv and (df/dy) v = jv:
\* y = mv; y = -c jv + y.
SdirkJacMulInplace(mv, jv) ==
    /\ version = "sdirk"
    /\ cret' = CRet("jac_mul_inplace", RAdd(RMul(RNeg(c), jv), mv))
    /\ UNCHANGED <<fvars, bvars, nvars, version, c, psi_neg_y0, rhs_jac, mass_jac, jac,
                   rhs_jacobian_is_stale, jacobian_is_stale, mass_jacobian_is_stale,
                   number_of_jac_evals>>

\* Mutation of JacEvalsAfter: a count that wraps around.
JacEvalsWrapped(n) == (n + 1) % 2

\* `let number_of_jac_evals = *self.number_of_jac_evals.borrow() + 1`
JacEvalsAfter(n) == n + 1

\* jacobian of sdirk.rs, where the mass matrix is jm and df/dy = jr.
SdirkJacobian(jr, jm) ==
    /\ version = "sdirk"
    /\ number_of_jac_evals < MaxJacEvals
    /\ mass_jac' = IF mass_jacobian_is_stale THEN jm ELSE mass_jac
    /\ mass_jacobian_is_stale' = FALSE
    /\ rhs_jac' = IF rhs_jacobian_is_stale THEN jr ELSE rhs_jac
    /\ rhs_jacobian_is_stale' = FALSE
    /\ jac' = IF mass_jacobian_is_stale \/ rhs_jacobian_is_stale \/ jacobian_is_stale
              THEN NewtonMatrix(mass_jac', rhs_jac', c)
              ELSE jac
    /\ jacobian_is_stale' = FALSE
    /\ number_of_jac_evals' = JacEvalsAfter(number_of_jac_evals)
    /\ cret' = CRet("jacobian", jac')
    /\ UNCHANGED <<fvars, bvars, nvars, version, c, psi_neg_y0>>

NextCallable ==
    \/ NewOde
    \/ \E hh \in CHSet : OdeSetC(hh, UnitAlpha, 1)
    \/ \E D \in DiffTables, y0 \in Y0Set :
          OdeSetPsiAndY0(D, GammaArray, UnitAlpha, 1, y0)
    \/ OdeSetRhsJacobianIsStale
    \/ \E x \in Y0Set, f \in F1Set, m \in MassSet : OdeCall(x, f, m)
    \/ \E v \in Y0Set, jv \in JacSet, m \in MassSet : OdeJacobianAction(v, jv, m)
    \/ \E jr \in JacSet, jm \in MassSet : OdeJacobian(jr, jm)
    \/ NewSdirk
    \/ \E hh \in CHSet : SdirkSetC(hh, One)
    \/ \E phi \in Y0Set : SdirkSetPhi(phi)
    \/ SdirkSetRhsJacobianIsStale
    \/ \E f \in F1Set, mx \in MassSet : SdirkCallInplace(f, mx)
    \/ \E mv \in MassSet, jv \in JacSet : SdirkJacMulInplace(mv, jv)
    \/ \E jr \in JacSet, jm \in MassSet : SdirkJacobian(jr, jm)

SpecCallable == Init /\ [][NextCallable]_vars

C19_FreshMatrixIsCurrent ==
    (version # "none" /\ ~jacobian_is_stale) =>
        jac = NewtonMatrix(mass_jac, rhs_jac, c)

\* C20: set_c(h, alpha) sets c to h * alpha; if neither J_rhs nor J_mass is
\* stale it recomputes J_N = J_mass - c * J_rhs at once and leaves
\* jacobian_is_stale as it was, otherwise it sets jacobian_is_stale and leaves
\* J_N untouched; it never changes the other two flags, J_rhs, J_mass or the
\* count of Jacobian evaluations.
C20_SetCRecomputesOrFlags ==
    [][\A hh \in CHSet :
          (OdeSetC(hh, UnitAlpha, 1) \/ SdirkSetC(hh, One)) =>
              /\ c' = RMul(hh, One)
              /\ IF ~rhs_jacobian_is_stale /\ ~mass_jacobian_is_stale
                 THEN /\ jac' = RSub(mass_jac, RMul(c', rhs_jac))
                      /\ jacobian_is_stale' = jacobian_is_stale
                 ELSE /\ jacobian_is_stale'
                      /\ jac' = jac
              /\ UNCHANGED <<rhs_jacobian_is_stale, mass_jacobian_is_stale,
                             rhs_jac, mass_jac, number_of_jac_evals>>]_vars

\* set_c has just recomputed the matrix with a new c, for a nonzero J_rhs.
C20_Witness ==
    /\ version = "sdirk" /\ cret.op = "set_c"
    /\ ~rhs_jacobian_is_stale /\ ~mass_jacobian_is_stale /\ ~jacobian_is_stale
    /\ rhs_jac = One /\ c = Rat(2, 1)
    /\ jac = RSub(mass_jac, Rat(2, 1))

\* C21: when jacobian() returns, the three staleness flags are all false and
\* the returned matrix is J_mass - c * J_rhs for the current c and the cached
\* J_mass and J_rhs.
C21_JacobianLeavesAllFresh ==
    cret.op = "jacobian" =>
        /\ ~rhs_jacobian_is_stale /\ ~mass_jacobian_is_stale /\ ~jacobian_is_stale
        /\ cret.val = NewtonMatrix(mass_jac, rhs_jac, c)

\* C22: a jacobian() call adds exactly one to the count of Jacobian
\* evaluations when it recomputes J_N (J_mass or J_rhs was refreshed, or
\* jacobian_is_stale was set) and leaves the count unchanged when it finds
\* nothing stale and returns the cached J_N.
C22_CountsRecomputationsOnly ==
    [][(\E jr \in JacSet, jm \in MassSet : SdirkJacobian(jr, jm)) =>
          number_of_jac_evals' =
              IF mass_jacobian_is_stale \/ rhs_jacobian_is_stale \/ jacobian_is_stale
              THEN number_of_jac_evals + 1
              ELSE number_of_jac_evals]_vars

C25_CallAndJacMulChangeNothing ==
    [][(\/ \E x \in Y0Set, f \in F1Set, m \in MassSet : OdeCall(x, f, m)
        \/ \E v \in Y0Set, jv \in JacSet, m \in MassSet : OdeJacobianAction(v, jv, m)
        \/ \E f \in F1Set, mx \in MassSet : SdirkCallInplace(f, mx)
        \/ \E mv \in MassSet, jv \in JacSet : SdirkJacMulInplace(mv, jv)) =>
          UNCHANGED <<c, psi_neg_y0, rhs_jac, mass_jac, jac,
                      rhs_jacobian_is_stale, mass_jacobian_is_stale,
                      jacobian_is_stale, number_of_jac_evals>>]_vars

\* call has returned while the cached J_N is flagged stale and is not
\* J_mass - c * J_rhs: a recomputation would have changed it.
C25_Witness ==
    /\ version = "ode" /\ cret.op = "call"
    /\ jacobian_is_stale
    /\ jac # NewtonMatrix(mass_jac, rhs_jac, c)

\* C27: call(y) returns M (y + psi_neg_y0) - c f(y), for the c and the
\* psi_neg_y0 = psi - y0 last set by set_c and set_psi_and_y0.
C27_CallValue ==
    [][\A x \in Y0Set, f \in F1Set, m \in MassSet :
          OdeCall(x, f, m) =>
              cret'.val = RSub(RMul(m, RAdd(x, psi_neg_y0)), RMul(c, f))]_vars

(***************************************************************************)
(* The claims about the Newton solver (checked under SpecNewton).          *)
(***************************************************************************)
\* C15: solve_in_place on a Newton solver whose problem is not set returns
\* the error and leaves x and the linear solver as they were, and
\* is_problem_set() is false exactly when set_problem was never called or
\* clear_problem was called since: it starts false, set_problem makes it
\* true, clear_problem makes it false and nothing else changes it.
C15_SolveWithoutProblemIsError ==
    /\ [][\A x \in XSet :
            (~IsProblemSet /\ (SolveNotSet(x) \/ SolveBegin(x))) =>
                /\ nret' = "not_set"
                /\ xn' = x
                /\ lin_set' = lin_set
                /\ npc' = "idle"]_vars
    /\ [][/\ NewtonSetProblem => IsProblemSet'
          /\ NewtonClearProblem => ~IsProblemSet'
          /\ (IsProblemSet' # IsProblemSet) =>
                (NewtonSetProblem \/ NewtonClearProblem)]_vars
    /\ ~IsProblemSet

\* solve_in_place was called after set_problem and clear_problem, while the
\* convergence monitor of the earlier problem still exists.
C15_Witness == nret = "not_set" /\ convergence_set /\ ~IsProblemSet

C39_MonitorLimitIsMaxIter ==
    npc # "idle" => conv_max_iter = max_iter

\* C38: a solve_in_place call makes at most 2 max_iter Newton corrections, at
\* most max_iter before the one Jacobian refresh and at most max_iter after it.
C38_AtMostTwiceMaxIter ==
    [][npc # "idle" =>
          /\ niter' <= 2 * max_iter
          /\ run_niter' <= max_iter]_vars

\* C10: after Diverged or MaximumIterations the Jacobian is reinstalled only
\* if none was installed earlier in the call (updated_jacobian = false), x
\* is then restored to the snapshot x0, this happens at most once per call,
\* and the non-convergence error is returned only after an iteration run
\* that used a Jacobian installed during the call.
C10_RestartOnce ==
    [][/\ restarts' = restarts + 1 =>
             /\ npc = "outer" /\ ~updated_jacobian
             /\ updated_jacobian' /\ lin_set' /\ xn' = x0
             /\ npc' = "iterate"
       /\ (npc = "outer" /\ ~updated_jacobian) => restarts' = restarts + 1
       /\ restarts' <= 1
       /\ (nret' = "not_converged" /\ npc = "outer") =>
             (updated_jacobian /\ run_niter >= 1)]_vars

\* A call that restarted once, moved x away from x0, and then gave up.
C10_Witness == nret = "not_converged" /\ restarts = 1 /\ xn # x0

(***************************************************************************)
(* The stepper's functions on their own: each action applies one of them   *)
(* to arguments drawn from the sets above and records the result.  The     *)
(* results depend on the arguments only, so one application per behaviour  *)
(* covers them all.                                                        *)
(***************************************************************************)
\* _compute_r(k, r)
ApplyComputeR(k, r) ==
    /\ applied = NoApplication
    /\ applied' = Application("_compute_r", [k |-> k, r |-> r], ComputeR(k, r))
    /\ UNCHANGED <<svars, nvars, cvars>>

\* The product _compute_r(k, r) * _compute_r(k, 1/r).
ApplyRProduct(k, r) ==
    /\ applied = NoApplication
    /\ applied' = Application("r_product", [k |-> k, r |-> r],
                              MatMul(ComputeR(k, r), ComputeR(k, XInv(r)), k))
    /\ UNCHANGED <<svars, nvars, cvars>>

\* The order and the U of a stepper after set_state.
OrderAfterSetState == 1

UAfterSetState == ComputeR(OrderAfterSetState, One)

\* h and the table after _update_step_size(r): the scratch table takes the
\* rescaled rows and the two tables are swapped.
StepSizeUpdate(st, r) ==
    [h    |-> RMul(st.h, r),
     diff |-> RescaledRows(st.diff, st.diff_tmp, UAfterSetState, OrderAfterSetState, r),
     diff_tmp |-> st.diff]

\* _update_step_size(r), then _update_step_size(1/r), on a stepper after
\* set_state.
ApplyStepSizeRoundTrip(hh, D, r) ==
    /\ applied = NoApplication
    /\ LET st == [h |-> hh, diff |-> D, diff_tmp |-> ZeroRows]
       IN  applied' = Application("step_size_round_trip",
                                  [h |-> hh, diff |-> D, r |-> r],
                                  StepSizeUpdate(StepSizeUpdate(st, r), XInv(r)))
    /\ UNCHANGED <<svars, nvars, cvars>>

\* _update_differences(d) at order k on the table D.
ApplyUpdateDifferences(D, d, k) ==
    /\ applied = NoApplication
    /\ k + 2 <= NRows - 1
    /\ applied' = Application("_update_differences", [diff |-> D, d |-> d, k |-> k],
                              UpdatedRows(D, d, k))
    /\ UNCHANGED <<svars, nvars, cvars>>

\* The allocated indices: diff = M::zeros(MAX_ORDER + 1, nstates); alpha,
\* gamma and error_const start as vec![0] and get one push per i in
\* 1..=MAX_ORDER.
Allocated ==
    [diff |-> 0..(NRows - 1), error_const |-> 0..MAX_ORDER,
     alpha |-> 0..MAX_ORDER, gamma |-> 0..MAX_ORDER]

\* The indices an accepted step at order k uses: _update_differences (rows
\* k + 2, k + 1 and i, i + 1 for i <= k), the controller (row k,
\* error_const[k] and, below MAX_ORDER, error_const[k + 2]), the error test
\* (error_const[k]), _predict (rows 1..k) and the callable (alpha[k],
\* gamma[0..k], rows 0..k).
StepIndices(k) ==
    [diff        |-> 0..(k + 2),
     error_const |-> {k} \cup (IF k < MAX_ORDER THEN {k + 2} ELSE {}),
     alpha       |-> {k},
     gamma       |-> 0..k]

ApplyStepIndices(k) ==
    /\ applied = NoApplication
    /\ applied' = Application("step_indices", [k |-> k], StepIndices(k))
    /\ UNCHANGED <<svars, nvars, cvars>>

\* The tables set_state builds.
CoefficientTables ==
    [kappa       |-> [i \in 0..MAX_ORDER |-> Kappa(i)],
     gamma       |-> GammaArray,
     alpha       |-> AlphaArray,
     error_const |-> [i \in 0..MAX_ORDER |-> ErrorConst(i)]]

ApplyCoefficientTables ==
    /\ applied = NoApplication
    /\ applied' = Application("coefficient_tables", <<>>, CoefficientTables)
    /\ UNCHANGED <<svars, nvars, cvars>>

NextFunctions ==
    \/ \E k \in 1..MAX_ORDER, r \in FactorSet : ApplyComputeR(k, r)
    \/ \E k \in 1..MAX_ORDER, r \in FactorSet : ApplyRProduct(k, r)
    \/ \E hh \in CHSet, D \in TableSet, r \in FactorSet : ApplyStepSizeRoundTrip(hh, D, r)
    \/ \E D \in TableSet, d \in CorrectionSet, k \in 1..MAX_ORDER :
          ApplyUpdateDifferences(D, d, k)
    \/ \E k \in 1..MAX_ORDER : ApplyStepIndices(k)
    \/ ApplyCoefficientTables

SpecFunctions == Init /\ [][NextFunctions]_vars

(***************************************************************************)
(* The claims about the stepper's functions (checked under SpecFunctions). *)
(***************************************************************************)
\* C31: _compute_r(k, r) is the (k+1) x (k+1) matrix with R[0,j] = 1 for every
\* j, R[i,0] = 0 for i >= 1 and R[i,j] = R[i-1,j] (i - 1 - r j) / i for
\* i, j >= 1.
C31_RMatrix ==
    applied.fn = "_compute_r" =>
        LET k == applied.in.k
            r == applied.in.r
            R == applied.out
        IN  /\ DOMAIN R = (0..k) \X (0..k)
            /\ \A j \in 0..k : R[<<0, j>>] = One
            /\ \A i \in 1..k : R[<<i, 0>>] = Zero
            /\ \A i \in 1..k, j \in 1..k :
                  R[<<i, j>>] =
                      RMul(R[<<i - 1, j>>],
                           RDiv(RSub(Rat(i - 1, 1), RMul(r, Rat(j, 1))), Rat(i, 1)))

\* C33: for every order k and nonzero factor r, R(k, 1) is U(k) and
\* R(k, r) R(k, 1/r) is the identity matrix.
C33_RProductIsIdentity ==
    /\ UAfterSetState = ComputeR(OrderAfterSetState, One)
    /\ applied.fn = "r_product" =>
          \A i \in 0..applied.in.k, j \in 0..applied.in.k :
              applied.out[<<i, j>>] = IF i = j THEN One ELSE Zero

\* C32: _update_step_size(r) followed by _update_step_size(1/r) at a fixed
\* order k leaves h and every row 0..k of D as they were.
C32_RoundTripRestores ==
    applied.fn = "step_size_round_trip" =>
        /\ applied.out.h = applied.in.h
        /\ \A i \in 0..OrderAfterSetState : applied.out.diff[i] = applied.in.diff[i]

C37_CoefficientTables ==
    applied.fn = "coefficient_tables" =>
        LET T == applied.out
        IN  /\ \A name \in DOMAIN T : DOMAIN T[name] = 0..MAX_ORDER
            /\ T.kappa = [i \in 0..MAX_ORDER |->
                            CASE i = 0 -> Zero
                              [] i = 1 -> Rat(-1850, 10000)
                              [] i = 2 -> Rat(-1, 9)
                              [] i = 3 -> Rat(-823, 10000)
                              [] i = 4 -> Rat(-415, 10000)
                              [] OTHER -> Zero]
            /\ T.gamma[0] = Zero
            /\ \A i \in 1..MAX_ORDER :
                  /\ T.gamma[i] = RAdd(T.gamma[i - 1], Rat(1, i))
                  /\ T.alpha[i] = XInv(RMul(RSub(One, T.kappa[i]), T.gamma[i]))
                  /\ T.error_const[i] = RAdd(RMul(T.kappa[i], T.gamma[i]), Rat(1, i + 1))

\* C36: the update D'[k+2] = d - D[k+1], D'[k+1] = d, D'[i] = D[i] + D'[i+1]
\* for i = k down to 0, adds d to every retained difference: D'[i] = D[i] + d
\* for every i in 0..k.
C36_AddsDToEveryRow ==
    applied.fn = "_update_differences" =>
        \A i \in 0..applied.in.k :
            applied.out[i] = RAdd(applied.in.diff[i], applied.in.d)

\* C36, as the update is: it adds to row i the correction d and every higher
\* retained difference, D'[i] = D[i] + D[i+1] + ... + D[k] + d for i in 0..k
\* (so D'[k] = D[k] + d), with D'[k+1] = d and D'[k+2] = d - D[k+1].
C36_AddsDAndHigherRows ==
    applied.fn = "_update_differences" =>
        LET k == applied.in.k
            D == applied.in.diff
            d == applied.in.d
        IN  /\ applied.out[k + 2] = RSub(d, D[k + 1])
            /\ applied.out[k + 1] = d
            /\ \A i \in 0..k :
                  applied.out[i] = RAdd(RAdd(D[i], RSumTo(D, i + 1, k)), d)
            /\ \A i \in (k + 3)..(NRows - 1) : applied.out[i] = D[i]

\* The update has run at order 2 on a table whose row 2 is not zero.
C36_Witness ==
    /\ applied.fn = "_update_differences"
    /\ applied.in.k = 2 /\ applied.in.diff[2] # Zero
    /\ applied.out[0] # RAdd(applied.in.diff[0], applied.in.d)

====
